---- MODULE Spec2Model ----
(***************************************************************************)
(* Model of main(n_min) of src/main.py (Project Euler 100, "Arranged       *)
(* Probability"): the search for the first blue/total disc arrangement     *)
(* with more than n_min discs, driven by the convergents of sqrt(2).       *)
(*                                                                         *)
(* Python's int is unbounded, while a TLC integer has 32 bits, so every    *)
(* Python int of main is a natural number written as the sequence of its   *)
(* base-2^15 limbs, least significant first, without leading zero limbs    *)
(* (zero is << >>).  The one float expression of main, line 183, is        *)
(* computed as IEEE-754 binary64 computes it: a float is a record          *)
(* [m, e] standing for m * 2^e with m of at most 53 bits.                  *)
(***************************************************************************)
EXTENDS Integers, Sequences, FiniteSets, TLC

VARIABLES pc, n_min, r, s, p, q, a, b, n, x

vars == <<pc, n_min, r, s, p, q, a, b, n, x>>

(***************************************************************************)
(* Python int arithmetic (+, -, *, comparison) on limb sequences.          *)
(***************************************************************************)
LimbBits == 15

BASE == 2^LimbBits

\* TLC evaluates a definition when its value is first needed, inside the
\* evaluation that needs it.  To keep the evaluation shallow, carry chains
\* and sums over a range of limbs are split in halves, and InOrder computes
\* intermediate values one after the other.

\* the last of the values, each computed before the next
InOrder(values) == values[Len(values)]

\* the greatest element of a non-empty set of numbers
Greatest(S) == CHOOSE i \in S : \A j \in S : j <= i

Norm(u) ==
    IF u = << >> THEN << >>
    ELSE IF u[Len(u)] # 0 THEN u
    ELSE LET nz == {i \in 1..Len(u) : u[i] # 0}
         IN  IF nz = {} THEN << >> ELSE SubSeq(u, 1, Greatest(nz))

RECURSIVE FromInt(_)
FromInt(i) ==
    IF i = 0 THEN << >> ELSE <<i % BASE>> \o FromInt(i \div BASE)

RECURSIVE ToInt(_)
ToInt(u) ==
    IF u = << >> THEN 0 ELSE u[1] + BASE * ToInt(Tail(u))

Limb(u, i) == IF i <= Len(u) THEN u[i] ELSE 0

\* limbs lo..hi of u + v with carry c in: <<limbs, carry out>>
RECURSIVE AddRange(_, _, _, _, _)
AddRange(u, v, lo, hi, c) ==
    IF lo > hi THEN <<<< >>, c>>
    ELSE IF lo = hi
    THEN LET t == Limb(u, lo) + Limb(v, lo) + c
         IN  <<<<t % BASE>>, t \div BASE>>
    ELSE LET mid  == (lo + hi) \div 2
             low  == AddRange(u, v, lo, mid, c)
             high == AddRange(u, v, mid + 1, hi, low[2])
         IN  <<low[1] \o high[1], high[2]>>

Add(u, v) ==
    IF u = << >> THEN v
    ELSE IF v = << >> THEN u
    ELSE LET sum == AddRange(u, v, 1,
                             IF Len(u) < Len(v) THEN Len(v) ELSE Len(u), 0)
         IN  IF sum[2] = 0 THEN sum[1] ELSE sum[1] \o <<sum[2]>>

\* limbs lo..hi of u - v with borrow c in: <<limbs, borrow out>>
RECURSIVE SubRange(_, _, _, _, _)
SubRange(u, v, lo, hi, c) ==
    IF lo > hi THEN <<<< >>, c>>
    ELSE IF lo = hi
    THEN LET t == Limb(u, lo) - Limb(v, lo) - c
         IN  <<<<t % BASE>>, IF t < 0 THEN 1 ELSE 0>>
    ELSE LET mid  == (lo + hi) \div 2
             low  == SubRange(u, v, lo, mid, c)
             high == SubRange(u, v, mid + 1, hi, low[2])
         IN  <<low[1] \o high[1], high[2]>>

\* u - v for u >= v
Sub(u, v) ==
    IF v = << >> THEN u ELSE Norm(SubRange(u, v, 1, Len(u), 0)[1])

Less(u, v) ==
    IF Len(u) # Len(v) THEN Len(u) < Len(v)
    ELSE LET differ == {i \in 1..Len(u) : u[i] # v[i]}
         IN  differ # {} /\ u[Greatest(differ)] < v[Greatest(differ)]

Leq(u, v) == ~Less(v, u)

\* limbs lo..hi of u * k with carry c in: <<limbs, carry out>>
RECURSIVE MulSmallRange(_, _, _, _, _)
MulSmallRange(u, k, lo, hi, c) ==
    IF lo > hi THEN <<<< >>, c>>
    ELSE IF lo = hi
    THEN LET t == u[lo] * k + c
         IN  <<<<t % BASE>>, t \div BASE>>
    ELSE LET mid  == (lo + hi) \div 2
             low  == MulSmallRange(u, k, lo, mid, c)
             high == MulSmallRange(u, k, mid + 1, hi, low[2])
         IN  <<low[1] \o high[1], high[2]>>

\* u * k for a single limb k
MulSmall(u, k) ==
    IF u = << >> \/ k = 0 THEN << >>
    ELSE LET prod == MulSmallRange(u, k, 1, Len(u), 0)
         IN  IF prod[2] = 0 THEN prod[1] ELSE prod[1] \o <<prod[2]>>

\* u * (limbs lo..hi of v), for lo <= hi
RECURSIVE MulRange(_, _, _, _)
MulRange(u, v, lo, hi) ==
    IF lo = hi THEN MulSmall(u, v[lo])
    ELSE LET mid  == (lo + hi) \div 2
             low  == MulRange(u, v, lo, mid)
             high == MulRange(u, v, mid + 1, hi)
         IN  Add(low, [i \in 1..(mid + 1 - lo) |-> 0] \o high)

Mul(u, v) ==
    IF u = << >> \/ v = << >> THEN << >> ELSE Norm(MulRange(u, v, 1, Len(v)))

Zero == << >>

One == <<1>>

Two == <<2>>

Max(u, v) == IF Less(u, v) THEN v ELSE u

(***************************************************************************)
(* Bit-level views of a Python int, as int -> float conversion and the     *)
(* float operations need them.                                             *)
(***************************************************************************)
\* the number of bits of a limb
BitLenSmall(k) == Cardinality({j \in 0..(LimbBits - 1) : 2^j <= k})

\* int.bit_length()
BitLen(u) ==
    IF u = << >> THEN 0
    ELSE LimbBits * (Len(u) - 1) + BitLenSmall(u[Len(u)])

\* u << k
ShiftL(u, k) ==
    IF u = << >> THEN << >>
    ELSE [i \in 1..(k \div LimbBits) |-> 0] \o MulSmall(u, 2^(k % LimbBits))

\* u >> k
ShiftR(u, k) ==
    LET d == k \div LimbBits
        j == k % LimbBits
        w == IF d >= Len(u) THEN << >> ELSE SubSeq(u, d + 1, Len(u))
    IN  Norm([i \in 1..Len(w) |->
                (w[i] \div 2^j) + (Limb(w, i + 1) % 2^j) * 2^(LimbBits - j)])

\* u % 2^k
LowBits(u, k) == Sub(u, ShiftL(ShiftR(u, k), k))

Pow2(k) == ShiftL(One, k)

IsOdd(u) == u # << >> /\ u[1] % 2 = 1

\* One step of the digit-by-digit square root, for the bit i of the root:
\* st.res holds the bits of the root above i (scaled), st.num what is left
\* of the radicand.  No step is left for i < 0.
ISqrtStep(st, i) ==
    IF i < 0 THEN st
    ELSE LET t == Add(st.res, Pow2(2 * i))
         IN  IF Leq(t, st.num)
             THEN [num |-> Sub(st.num, t),
                   res |-> Add(ShiftR(st.res, 1), Pow2(2 * i))]
             ELSE [num |-> st.num, res |-> ShiftR(st.res, 1)]

\* the steps for the bits hi, hi - 1, ..., hi - 8^level + 1: eight runs of
\* 8^(level - 1) steps each, one after the other
RECURSIVE ISqrtSteps(_, _, _)
ISqrtSteps(st, hi, level) ==
    IF level = 0 THEN ISqrtStep(st, hi)
    ELSE LET w == 8 ^ (level - 1)
             s1 == ISqrtSteps(st, hi, level - 1)
             s2 == ISqrtSteps(s1, hi - w, level - 1)
             s3 == ISqrtSteps(s2, hi - 2 * w, level - 1)
             s4 == ISqrtSteps(s3, hi - 3 * w, level - 1)
             s5 == ISqrtSteps(s4, hi - 4 * w, level - 1)
             s6 == ISqrtSteps(s5, hi - 5 * w, level - 1)
             s7 == ISqrtSteps(s6, hi - 6 * w, level - 1)
             s8 == ISqrtSteps(s7, hi - 7 * w, level - 1)
         IN  InOrder(<<s1, s2, s3, s4, s5, s6, s7, s8>>)

\* [res |-> floor of the square root of u, num |-> u - res * res],
\* for u of at most 128 bits
ISqrtRem(u) == ISqrtSteps([num |-> u, res |-> Zero], BitLen(u) \div 2, 2)

(***************************************************************************)
(* IEEE-754 binary64, as far as line 183 uses it: int -> float, sqrt,      *)
(* 1 + float, float / 2 and int(float), each rounded to nearest, ties to   *)
(* even.  All floats of line 183 are at least 1, so no subnormals occur.   *)
(***************************************************************************)
MantBits == 53

MaxExp == 1024

\* The float nearest to (m + t) * 2^e, where 0 < t < 1 if sticky and t = 0
\* otherwise; with sticky, m has more than MantBits + 1 bits.
RoundToDouble(m, e, sticky) ==
    LET k == BitLen(m) - MantBits
    IN  IF k <= 0 THEN [m |-> m, e |-> e]
        ELSE LET hi   == ShiftR(m, k)
                 lo   == LowBits(m, k)
                 half == Pow2(k - 1)
                 up   == \/ Less(half, lo)
                         \/ lo = half /\ (sticky \/ IsOdd(hi))
             IN  [m |-> IF up THEN Add(hi, One) ELSE hi, e |-> e + k]

\* float(u), before the range check
IntToFloat(u) == RoundToDouble(u, 0, FALSE)

\* "OverflowError: int too large to convert to float"
FloatOverflows(f) == BitLen(f.m) + f.e > MaxExp

\* math.sqrt on a float: the correctly rounded square root
Sqrt(f) ==
    LET need == 2 * MantBits + 4 - BitLen(f.m)
        sh0  == IF need > 0 THEN need ELSE 0
        sh   == IF (f.e - sh0) % 2 = 0 THEN sh0 ELSE sh0 + 1
        root == ISqrtRem(ShiftL(f.m, sh))
    IN  InOrder(<<root,
                  RoundToDouble(root.res, (f.e - sh) \div 2, root.num # Zero)>>)

\* 1 + f
FAddOne(f) ==
    IF f.e >= 0
    THEN RoundToDouble(Add(ShiftL(f.m, f.e), One), 0, FALSE)
    ELSE RoundToDouble(Add(f.m, Pow2(0 - f.e)), f.e, FALSE)

\* f / 2
FHalf(f) == [m |-> f.m, e |-> f.e - 1]

\* int(f): truncation
FloatToInt(f) ==
    IF f.e >= 0 THEN ShiftL(f.m, f.e) ELSE ShiftR(f.m, 0 - f.e)

(***************************************************************************)
(* The expressions of main.                                                *)
(***************************************************************************)
\* An argument of main: a Python int (neg, mag) or a Python float
\* (neg, mag + 1/2 if half).
PyInt(i) ==
    [type |-> "int", neg |-> i < 0, mag |-> FromInt(IF i < 0 THEN 0 - i ELSE i),
     half |-> FALSE]

PyFloat(twice) ==
    [type |-> "float", neg |-> FALSE, mag |-> FromInt(twice \div 2),
     half |-> twice % 2 = 1]

PyBigInt(neg, mag) == [type |-> "int", neg |-> neg, mag |-> mag, half |-> FALSE]

\* line 40: type(n_min) == int and n_min > 0
ValidArgZeroAllowed(v) == v.type = "int" /\ ~v.neg

ValidArg(v) == v.type = "int" /\ ~v.neg /\ v.mag # Zero

\* line 173-174
TripleP(rr, ss) == Add(rr, ss)

TripleQ(rr, ss) == ss

\* line 177
LegA(pp, qq) == Mul(Sub(pp, qq), Add(pp, qq))

\* line 178
LegBNoDoubling(pp, qq) == Mul(pp, qq)

LegB(pp, qq) == Mul(Mul(Two, pp), qq)

\* line 182: n > n_min, for n_min a positive int
ExceedsOrEqual(nn, v) == Leq(v.mag, nn)

Exceeds(nn, v) == Less(v.mag, nn)

\* line 183
Radicand(aa, bb) == Add(One, Mul(Mul(Two, aa), bb))

SqrtRaises(aa, bb) == FloatOverflows(IntToFloat(Radicand(aa, bb)))

BlueCountNoHalving(aa, bb) ==
    LET arg  == IntToFloat(Radicand(aa, bb))
        root == Sqrt(arg)
        sum  == FAddOne(root)
    IN  InOrder(<<arg, root, sum, FloatToInt(sum)>>)

BlueCount(aa, bb) ==
    LET arg  == IntToFloat(Radicand(aa, bb))
        root == Sqrt(arg)
        sum  == FAddOne(root)
    IN  InOrder(<<arg, root, sum, FloatToInt(FHalf(sum))>>)

\* line 186: r, s = r + 2*s, r + s
StepSequential(rr, ss) ==
    <<Add(rr, Mul(Two, ss)), Add(Add(rr, Mul(Two, ss)), ss)>>

StepSignSlip(rr, ss) == <<Add(rr, Mul(Two, ss)), Sub(rr, ss)>>

Step(rr, ss) == <<Add(rr, Mul(Two, ss)), Add(rr, ss)>>

(***************************************************************************)
(* The state machine: one call of main.                                    *)
(***************************************************************************)
\* a local that is not yet bound
Unset == <<-1>>

MaxBound == 25

MaxNeg == 5

MaxFloatTwice == 6

Inputs ==
    {PyInt(i) : i \in (0 - MaxNeg)..MaxBound}
        \cup {PyFloat(t) : t \in 1..MaxFloatTwice}

Entry ==
    /\ pc = "entry"
    /\ r = Unset /\ s = Unset /\ p = Unset /\ q = Unset
    /\ a = Unset /\ b = Unset /\ n = Unset /\ x = Unset

Init == n_min \in Inputs /\ Entry

\* line 40, the assertion fails
AssertFails ==
    /\ pc = "entry"
    /\ ~ValidArg(n_min)
    /\ pc' = "AssertionError"
    /\ UNCHANGED <<n_min, r, s, p, q, a, b, n, x>>

\* lines 40, 168-169
Begin ==
    /\ pc = "entry"
    /\ ValidArg(n_min)
    /\ r' = One
    /\ s' = One
    /\ pc' = "loop"
    /\ UNCHANGED <<n_min, p, q, a, b, n, x>>

\* lines 171-187, one pass through the loop body
Iterate ==
    /\ pc = "loop"
    /\ LET pp == TripleP(r, s)
           qq == TripleQ(r, s)
           aa == LegA(pp, qq)
           bb == LegB(pp, qq)
           nn == Max(aa, bb)
       IN  /\ p' = pp /\ q' = qq /\ a' = aa /\ b' = bb /\ n' = nn
           /\ IF Exceeds(nn, n_min)
              THEN /\ IF SqrtRaises(aa, bb)
                      THEN pc' = "OverflowError" /\ x' = x
                      ELSE pc' = "returned" /\ x' = BlueCount(aa, bb)
                   /\ UNCHANGED <<r, s>>
              ELSE /\ r' = Step(r, s)[1]
                   /\ s' = Step(r, s)[2]
                   /\ pc' = "loop"
                   /\ x' = x
    /\ UNCHANGED n_min

Next == AssertFails \/ Begin \/ Iterate

Spec == Init /\ [][Next]_vars

(***************************************************************************)
(* The same call on large arguments: the canonical bound 10^12, the two    *)
(* bounds around the first total whose square root needs more than 53      *)
(* bits, the bound 2^512, whose radicand leaves the range of a float, and  *)
(* two arguments that are no positive int.                                 *)
(***************************************************************************)
\* the int with the decimal digits lo..hi of digits, most significant
\* first, for at most 2 * 9 digits
RECURSIVE FromDecimalRange(_, _, _)
FromDecimalRange(digits, lo, hi) ==
    IF lo > hi THEN Zero
    ELSE IF lo = hi THEN FromInt(digits[lo])
    ELSE LET mid   == (lo + hi) \div 2
             left  == FromDecimalRange(digits, lo, mid)
             right == FromDecimalRange(digits, mid + 1, hi)
         IN  InOrder(<<left, right,
                       Add(Mul(left, FromInt(10^(hi - mid))), right)>>)

FromDecimal(digits) == FromDecimalRange(digits, 1, Len(digits))

LargeInputs ==
    { PyBigInt(FALSE, FromDecimal(<<1,0,0,0,0,0,0,0,0,0,0,0,0>>)),
      PyBigInt(FALSE, FromDecimal(<<1,2,3,5,2,1,6,5,6,5,9,7,4,0,4,0>>)),
      PyBigInt(FALSE, FromDecimal(<<1,2,3,5,2,1,6,5,6,5,9,7,4,0,4,1>>)),
      PyBigInt(FALSE, Pow2(512)),
      PyBigInt(TRUE, Pow2(40)),
      [type |-> "float", neg |-> FALSE, mag |-> Pow2(40), half |-> TRUE] }

LargeInit == n_min \in LargeInputs /\ Entry

LargeSpec == LargeInit /\ [][Next]_vars

(***************************************************************************)
(* Properties.                                                             *)
(***************************************************************************)
\* n_min is a positive int, read off the argument itself
PositiveInt == n_min.type = "int" /\ ~n_min.neg /\ Len(n_min.mag) > 0

\* y blue discs out of t make P[BB] = 1/2 (small t, plain integers)
IsArrangement(t, y) == 2 * y * (y - 1) = t * (t - 1)

\* C1: the returned total exceeds the bound, is the total of an arrangement,
\* and no integer strictly between the bound and the returned total is the
\* total of an arrangement: the returned total is the smallest one above
\* the bound.
C1_FirstArrangementAboveBound ==
    pc = "returned" =>
        LET total == ToInt(n)
            bound == ToInt(n_min.mag)
        IN  /\ total > bound
            /\ \E y \in 1..(total - 1) : IsArrangement(total, y)
            /\ \A t \in (bound + 1)..(total - 1) :
                  \A y \in 1..(t - 1) : ~IsArrangement(t, y)

\* C1 witness: bound 5 returns total 21, with 6..20 in between
C1_Witness == pc = "returned" /\ n_min = PyInt(5) /\ n = FromInt(21)

\* C2: the returned pair satisfies 2 * blue * (blue - 1) = total * (total - 1)
C2_BlueIdentity ==
    pc = "returned" =>
        Mul(Two, Mul(x, Sub(x, One))) = Mul(n, Sub(n, One))

\* C3 as stated: every positive bound below 21, bound 1 included, returns
\* (total, blue) = (21, 15)
C3_EveryBoundBelow21Gives21 ==
    (pc = "returned" /\ ToInt(n_min.mag) < 21) =>
        (n = FromInt(21) /\ x = FromInt(15))

\* C3 amended: the bounds 4..20 return (21, 15); the bounds 1..3, bound 1
\* included, return (4, 3)
C3_BoundsBelow21 ==
    pc = "returned" =>
        LET bound == ToInt(n_min.mag)
        IN  /\ bound \in 4..20 => (n = FromInt(21) /\ x = FromInt(15))
            /\ bound \in 1..3 => (n = FromInt(4) /\ x = FromInt(3))

\* C3 witness: bound 1 has returned (4, 3)
C3_Witness ==
    pc = "returned" /\ n_min = PyInt(1) /\ n = FromInt(4) /\ x = FromInt(3)

\* C4: bound 21 returns (total, blue) = (120, 85)
C4_Bound21Gives120 ==
    (pc = "returned" /\ n_min = PyInt(21)) =>
        (n = FromInt(120) /\ x = FromInt(85))

\* C4 witness: the call with bound 21 has returned, 85 blue discs
C4_Witness == pc = "returned" /\ n_min = PyInt(21) /\ x = FromInt(85)

\* C5: an argument that is no positive int ends in the failed assertion
\* and nowhere else: from the entry only the failing assertion can be taken,
\* no result is produced and the Pell state r, s is never bound or advanced.
C5_InvalidArgumentRejected ==
    ~PositiveInt =>
        /\ pc \in {"entry", "AssertionError"}
        /\ pc = "entry" => (ENABLED AssertFails /\ ~ENABLED Begin)
        /\ r = Unset /\ s = Unset
        /\ n = Unset /\ x = Unset

\* C5 witness: the call with the float 2.5 has failed its assertion
C5_Witness == pc = "AssertionError" /\ n_min = PyFloat(5)

\* C6: for every positive int bound the call terminates by returning: it is
\* either still running (at the entry, where Begin can step, or in the loop,
\* where Iterate can step) or it has returned; it never stops any other way.
C6_StopsOnlyByReturning == PositiveInt => pc \in {"entry", "loop", "returned"}

\* C7: the returned pair satisfies 0 < blue < total
C7_BlueWithinTotal ==
    pc = "returned" => (Less(Zero, x) /\ Less(x, n))

\* C7 witness: the bound 10^12 has returned 756872327473 blue discs
C7_Witness ==
    /\ pc = "returned"
    /\ n = FromDecimal(<<1,0,7,0,3,7,9,1,1,0,4,9,7>>)
    /\ x = FromDecimal(<<7,5,6,8,7,2,3,2,7,4,7,3>>)

\* C8: at the head of every loop iteration r*r - 2*s*s is 1 or -1
C8_PellInvariant ==
    pc = "loop" =>
        LET r2  == Mul(r, r)
            ss2 == Mul(Two, Mul(s, s))
        IN  r2 = Add(ss2, One) \/ Add(r2, One) = ss2

\* C8 witness: the loop head after two recurrence steps, (r, s) = (7, 5)
C8_Witness == pc = "loop" /\ r = FromInt(7) /\ s = FromInt(5)

\* C9: in every iteration the legs a and b differ by exactly 1, so with
\* n = max(a, b) the set {a, b} is {n - 1, n} and a * b = n * (n - 1)
C9_LegsDifferByOne ==
    a # Unset =>
        /\ a = Add(b, One) \/ b = Add(a, One)
        /\ n = (IF Less(a, b) THEN b ELSE a)
        /\ {a, b} = {Sub(n, One), n}
        /\ Mul(a, b) = Mul(n, Sub(n, One))

\* C9 witness: the second iteration, where a = 21 is the greater leg
C9_Witness == a = FromInt(21) /\ b = FromInt(20) /\ n = FromInt(21)

\* C10: every pass through the loop body after the first computes a total n
\* and legs a, b strictly greater than those of the pass before, and the
\* first pass computes the total of the seed (1, 1), which is 4
C10_CandidatesIncrease ==
    [][pc = "loop" =>
          IF n = Unset
          THEN n' = FromInt(4)
          ELSE Less(n, n') /\ Less(a, a') /\ Less(b, b')]_vars

\* C10 witness: the loop head after the third pass, whose total 120
\* followed 4 and 21
C10_Witness == pc = "loop" /\ n = FromInt(120) /\ r = FromInt(17)

====
